---------------------------- MODULE Spec2Model ----------------------------
(***************************************************************************)
(* L-Shape Stone Volume Calculator (with Chamfer / Bullnose).              *)
(*                                                                         *)
(* The page is a set of input fields, two radio buttons, two view buttons, *)
(* an auto-fit button, two volume read-outs, a validation message and an   *)
(* SVG drawing.  Every handler runs synchronously to completion, so each   *)
(* handler is one action.                                                  *)
(*                                                                         *)
(* Numbers.  The inputs are integer millimetres (a field holds the text of *)
(* an integer, or is empty).  A volume, a drawing scale and everything the *)
(* code compares against a threshold is a Number as the engine holds it:   *)
(* an IEEE-754 binary64 value, every operation rounded to nearest, ties to *)
(* even.  toFixed and toExponential print the exact value of the Number.   *)
(***************************************************************************)
EXTENDS Integers, Sequences, FiniteSets, TLC

VARIABLES
    fields,          \* input element id -> its .value (<<>> empty, <<n>> the text of n)
    edgeBullnose,    \* $edgeBullnose.checked
    currentView,     \* 'cross' | 'iso'
    autoFitShown,    \* $autoFitBtn.style.display = 'block'
    validationMsg,   \* $validationMsg: the list of messages shown
    inputError,      \* the inputs carrying the class input-error
    volumeOne,       \* $volumeOne.textContent
    volumeTotal,     \* $volumeTotal.textContent
    lShape,          \* $lShape 'd' attribute
    lShapeHatch,     \* $lShapeHatch 'd' attribute
    dims,            \* $dims.innerHTML
    edits            \* number of field edits made in this session

vars == <<fields, edgeBullnose, currentView, autoFitShown, validationMsg,
          inputError, volumeOne, volumeTotal, lShape, lShapeHatch, dims, edits>>

display == <<validationMsg, inputError, volumeOne, volumeTotal>>

----------------------------------------------------------------------------
(* Bounds of the explored input grid and of a session.                     *)
MaxL == 1
MaxW == 2
MaxT == 2
MaxLw == 1
MaxLh == 1
MaxTr == 1
MaxQty == 2
MaxEdits == 1

FieldIds == {"length", "width", "flatThickness", "lipWidth", "lipHeight",
             "chamfer", "quantity"}

Blank == <<>>
Text(n) == <<n>>

----------------------------------------------------------------------------
(* Helpers *)

\* parseFloat(s) || 0 : empty text parses to NaN, NaN and 0 both give 0.
ParseFloatOr0(s) == IF Len(s) = 0 THEN 0 ELSE s[1]

\* parseInt(s, 10) || 1 : NaN and 0 are falsy and give 1.
ParseIntOr1(s) == IF Len(s) = 0 \/ s[1] = 0 THEN 1 ELSE s[1]

getEdgeType(bullnoseChecked) == IF bullnoseChecked THEN "bullnose" ELSE "chamfer"

getValues(fs, bullnoseChecked) ==
    [L    |-> ParseFloatOr0(fs["length"]),
     W    |-> ParseFloatOr0(fs["width"]),
     T    |-> ParseFloatOr0(fs["flatThickness"]),
     Lw   |-> ParseFloatOr0(fs["lipWidth"]),
     Lh   |-> ParseFloatOr0(fs["lipHeight"]),
     Tr   |-> ParseFloatOr0(fs["chamfer"]),
     qty  |-> ParseIntOr1(fs["quantity"]),
     edge |-> getEdgeType(bullnoseChecked)]


----------------------------------------------------------------------------
(* Input Validation *)

Check(cond, msg) == IF cond THEN <<msg>> ELSE <<>>
Mark(cond, id) == IF cond THEN {id} ELSE {}

\* All dimensions must be positive (except Tr which can be 0)
positivityErrors(v) ==
    Check(v.L <= 0, "Length (L) must be greater than 0.")
 \o Check(v.W <= 0, "Total Width (W) must be greater than 0.")
 \o Check(v.T <= 0, "Flat Thickness (T) must be greater than 0.")
 \o Check(v.Lw <= 0, "Lip Width (Lw) must be greater than 0.")
 \o Check(v.Lh <= 0, "Lip Drop Height (Lh) must be greater than 0.")
 \o Check(v.Tr < 0, "Tr cannot be negative.")
 \o Check(v.qty < 1, "Quantity must be at least 1.")


\* relationshipErrors with the lip allowed to be as wide as the slab
relationshipErrorsStrict(v) ==
    Check(v.Tr > 0 /\ v.T > 0 /\ v.Tr >= v.T,
          "Tr must be less than Flat Thickness (T).")
 \o Check(v.Lw > 0 /\ v.W > 0 /\ v.Lw > v.W,
          "Lip Width (Lw) must be less than Total Width (W).")

\* Relationship constraints
relationshipErrors(v) ==
    Check(v.Tr > 0 /\ v.T > 0 /\ v.Tr >= v.T,
          "Tr must be less than Flat Thickness (T).")
 \o Check(v.Lw > 0 /\ v.W > 0 /\ v.Lw >= v.W,
          "Lip Width (Lw) must be less than Total Width (W).")

errorInputsOf(v) ==
    Mark(v.L <= 0, "length") \cup Mark(v.W <= 0, "width")
 \cup Mark(v.T <= 0, "flatThickness") \cup Mark(v.Lw <= 0, "lipWidth")
 \cup Mark(v.Lh <= 0, "lipHeight") \cup Mark(v.Tr < 0, "chamfer")
 \cup Mark(v.qty < 1, "quantity")
 \cup Mark(v.Tr > 0 /\ v.T > 0 /\ v.Tr >= v.T, "chamfer")
 \cup Mark(v.Lw > 0 /\ v.W > 0 /\ v.Lw >= v.W, "lipWidth")

\* validate stopping at the first violation
validateFirstOnly(v) ==
    LET errors == positivityErrors(v) \o relationshipErrors(v)
    IN  [errors |-> IF Len(errors) > 1 THEN SubSeq(errors, 1, 1) ELSE errors,
         errorInputs |-> errorInputsOf(v),
         ok |-> (Len(errors) = 0)]

\* validate(): the messages shown, the inputs marked, and the value returned.
validate(v) ==
    LET errors == positivityErrors(v) \o relationshipErrors(v)
    IN  [errors |-> errors,
         errorInputs |-> errorInputsOf(v),
         ok |-> (Len(errors) = 0)]

----------------------------------------------------------------------------
(* Magnitudes of any size *)

\* A magnitude is a natural number as a sequence of limbs of LimbBits bits,
\* the least significant first and the last one not 0; << >> is 0.
LimbBits == 13
Radix == 2 ^ LimbBits

Limb(a, i) == IF i >= 1 /\ i <= Len(a) THEN a[i] ELSE 0

RECURSIVE BTrim(_)
BTrim(a) ==
    IF Len(a) = 0 \/ a[Len(a)] # 0 THEN a
    ELSE BTrim(SubSeq(a, 1, Len(a) - 1))

RECURSIVE BInt(_)
BInt(n) == IF n = 0 THEN << >> ELSE << n % Radix >> \o BInt(n \div Radix)

RECURSIVE BToInt(_)
BToInt(a) == IF Len(a) = 0 THEN 0 ELSE a[1] + Radix * BToInt(Tail(a))

\* the limbs of the number whose i-th limb, before carrying, is cols[i]
RECURSIVE BCarry(_, _, _)
BCarry(cols, i, c) ==
    IF i > Len(cols) THEN BInt(c)
    ELSE LET t == cols[i] + c
         IN  << t % Radix >> \o BCarry(cols, i + 1, t \div Radix)

BAdd(a, b) ==
    LET n == IF Len(a) > Len(b) THEN Len(a) ELSE Len(b)
    IN  BTrim(BCarry([i \in 1..n |-> Limb(a, i) + Limb(b, i)], 1, 0))

\* a - b for a >= b
BSub(a, b) ==
    BTrim(BCarry([i \in 1..Len(a) |-> a[i] - Limb(b, i)], 1, 0))

\* a * n for an integer 0 <= n < 2^31
BMulInt(a, n) ==
    LET n0 == n % Radix
        n1 == (n \div Radix) % Radix
        n2 == n \div (Radix * Radix)
    IN  BTrim(BCarry([i \in 1..(Len(a) + 2) |->
                         Limb(a, i) * n0 + Limb(a, i - 1) * n1
                         + Limb(a, i - 2) * n2], 1, 0))

\* a * b for b of at most five limbs
BMul(a, b) ==
    BTrim(BCarry([i \in 1..(Len(a) + Len(b)) |->
                     Limb(a, i) * Limb(b, 1) + Limb(a, i - 1) * Limb(b, 2)
                     + Limb(a, i - 2) * Limb(b, 3) + Limb(a, i - 3) * Limb(b, 4)
                     + Limb(a, i - 4) * Limb(b, 5)], 1, 0))

\* a * 10^p, nine decimal digits at a time
RECURSIVE BMulPow10(_, _)
BMulPow10(a, p) ==
    IF p <= 0 THEN a
    ELSE BMulPow10(BMulInt(a, 10 ^ (IF p >= 9 THEN 9 ELSE p)), p - 9)

\* the number of bits of a
BBits(a) ==
    IF Len(a) = 0 THEN 0
    ELSE LimbBits * (Len(a) - 1)
         + (CHOOSE k \in 1..LimbBits :
               2 ^ (k - 1) <= a[Len(a)] /\ a[Len(a)] < 2 ^ k)

\* a * 2^k
BShl(a, k) ==
    LET w == k \div LimbBits
        b == k % LimbBits
        c == LimbBits - b
    IN  IF Len(a) = 0 THEN a
        ELSE BTrim([i \in 1..(Len(a) + w + 1) |->
                       (Limb(a, i - w) % (2 ^ c)) * (2 ^ b)
                       + (Limb(a, i - w - 1) \div (2 ^ c))])

\* a / 2^k, rounded down
BShr(a, k) ==
    LET w == k \div LimbBits
        b == k % LimbBits
        c == LimbBits - b
    IN  IF Len(a) <= w THEN << >>
        ELSE BTrim([i \in 1..(Len(a) - w) |->
                       (Limb(a, i + w) \div (2 ^ b))
                       + (Limb(a, i + w + 1) % (2 ^ b)) * (2 ^ c)])

\* bit k of a (bit 0 is the least significant)
BBit(a, k) == (Limb(a, (k \div LimbBits) + 1) \div (2 ^ (k % LimbBits))) % 2

\* -1, 0 or 1 as a < b, a = b or a > b
BCmp(a, b) ==
    IF Len(a) # Len(b) THEN (IF Len(a) < Len(b) THEN 0 - 1 ELSE 1)
    ELSE LET D == {i \in 1..Len(a) : a[i] # b[i]}
         IN  IF D = {} THEN 0
             ELSE LET i == CHOOSE x \in D : \A y \in D : y <= x
                  IN  IF a[i] < b[i] THEN 0 - 1 ELSE 1

\* one limb x of a long division by d <= 2^30, bit by bit from bit j down,
\* with the remainder r carried in: the quotient limb and the remainder
\* carried out
RECURSIVE BDivBits(_, _, _, _, _)
BDivBits(x, d, j, r, q) ==
    IF j < 0 THEN [q |-> q, r |-> r]
    ELSE LET t == 2 * r + ((x \div (2 ^ j)) % 2)
         IN  IF t >= d THEN BDivBits(x, d, j - 1, t - d, 2 * q + 1)
                       ELSE BDivBits(x, d, j - 1, t, 2 * q)

\* the limbs Len(a), .., i of a divided by d: the limbs i, .. of the
\* quotient and the remainder
RECURSIVE BDivFrom(_, _, _)
BDivFrom(a, d, i) ==
    IF i > Len(a) THEN [q |-> << >>, r |-> 0]
    ELSE LET hi == BDivFrom(a, d, i + 1)
             one == IF d < 2 ^ 17
                    THEN [q |-> (hi.r * Radix + a[i]) \div d,
                          r |-> (hi.r * Radix + a[i]) % d]
                    ELSE BDivBits(a[i], d, LimbBits - 1, hi.r, 0)
         IN  [q |-> << one.q >> \o hi.q, r |-> one.r]

\* quotient of a by an integer 0 < d <= 2^30, and whether it is exact.  A
\* divisor of 2^17 or more goes bit by bit, unless it is 5^6 times a
\* number below 2^17 (as 10^9 is), which goes in two divisions.
BDivExact(x, exact) == [q |-> BTrim(x.q), exact |-> (exact /\ x.r = 0)]
BDivTwice(x, d) == BDivExact(BDivFrom(BTrim(x.q), d, 1), x.r = 0)
BDivInt(a, d) ==
    IF d >= 2 ^ 17 /\ d % (5 ^ 6) = 0 /\ d \div (5 ^ 6) < 2 ^ 17
    THEN BDivTwice(BDivFrom(a, 5 ^ 6, 1), d \div (5 ^ 6))
    ELSE BDivExact(BDivFrom(a, d, 1), TRUE)

\* the number of zero bits at the low end of a # 0
BTz(a) ==
    LET w == CHOOSE i \in 1..Len(a) : a[i] # 0 /\ \A j \in 1..(i - 1) : a[j] = 0
    IN  LimbBits * (w - 1)
        + (CHOOSE k \in 0..(LimbBits - 1) : a[w] % (2 ^ (k + 1)) = 2 ^ k)

\* a is a multiple of 2^k
BLowZero(a, k) ==
    /\ \A j \in 1..(k \div LimbBits) : Limb(a, j) = 0
    /\ Limb(a, (k \div LimbBits) + 1) % (2 ^ (k % LimbBits)) = 0

----------------------------------------------------------------------------
(* Numbers: IEEE-754 binary64, round to nearest, ties to even *)

\* A Number is s * m * 2^e with the sign s in {-1, 0, 1} and the odd
\* magnitude m of at most MantissaBits bits (m = << >> and e = 0 for zero).
MantissaBits == 53

Abs(n) == IF n < 0 THEN 0 - n ELSE n
Sign(n) == IF n < 0 THEN 0 - 1 ELSE IF n = 0 THEN 0 ELSE 1

DblZero == [s |-> 0, m |-> << >>, e |-> 0]

\* a of more than MantissaBits bits cut to MantissaBits bits: m * 2^sh is
\* the Number nearest to a, or to a number strictly between a and a + 1
\* when more is set (a then has two bits more than a mantissa holds)
RoundUp(q, k, up) == [m |-> IF up THEN BAdd(q, << 1 >>) ELSE q, sh |-> k]
RoundTie(a, q, k, more) ==
    RoundUp(q, k, /\ BBit(a, k - 1) = 1
                  /\ (more \/ ~BLowZero(a, k - 1) \/ BBit(q, 0) = 1))
RoundAt(a, k, more) == RoundTie(a, BShr(a, k), k, more)
RoundBig(a, more) == RoundAt(a, BBits(a) - MantissaBits, more)

\* s * m * 2^e with the zero bits at the low end of m, z of them, moved to
\* the exponent
DblOddAt(s, m, e, z) == [s |-> s, m |-> BShr(m, z), e |-> e + z]
DblOdd(s, r, e) == DblOddAt(s, r.m, e + r.sh, BTz(r.m))

\* the Number nearest to s * a * 2^e
DblRound(s, a, e, more) ==
    IF Len(a) = 0 THEN DblZero
    ELSE DblOdd(s, IF BBits(a) <= MantissaBits THEN [m |-> a, sh |-> 0]
                   ELSE RoundBig(a, more), e)

\* the Number of an integer n, which has fewer bits than a mantissa holds
DblIntAt(n, z) ==
    [s |-> Sign(n), m |-> BInt(Abs(n) \div (2 ^ z)), e |-> z]
DblInt(n) ==
    IF n = 0 THEN DblZero
    ELSE DblIntAt(n, CHOOSE k \in 0..30 :
                         Abs(n) % (2 ^ k) = 0 /\ (Abs(n) \div (2 ^ k)) % 2 = 1)

DblNeg(x) == [x EXCEPT !.s = 0 - @]

\* x * 2^k
DblScale(x, k) == IF x.s = 0 THEN x ELSE [x EXCEPT !.e = @ + k]

\* x * y
DblMul(x, y) ==
    IF x.s = 0 \/ y.s = 0 THEN DblZero
    ELSE DblRound(x.s * y.s, BMul(x.m, y.m), x.e + y.e, FALSE)

\* x * n for an integer n
DblMulInt(x, n) == DblMul(x, DblInt(n))

\* x / d for an integer d # 0 with |d| <= 2^30: the quotient of the
\* magnitudes is taken to two bits more than a mantissa holds, or more
DblDivRound(s, qr, e) == DblRound(s, qr.q, e, ~qr.exact)
DblDivAt(x, d, k) ==
    DblDivRound(x.s * Sign(d), BDivInt(BShl(x.m, k), Abs(d)), x.e - k)
DblDivInt(x, d) ==
    IF x.s = 0 THEN DblZero
    ELSE DblDivAt(x, d, MantissaBits + 2 + BBits(BInt(Abs(d))) - BBits(x.m))

\* n / d for integers n and d # 0 with |d| <= 2^30
DblQuot(n, d) ==
    IF n % Abs(d) = 0 THEN DblInt((n \div Abs(d)) * Sign(d))
    ELSE DblDivInt(DblInt(n), d)

\* x + y
\* sx * a * 2^e + sy * b * 2^e, where c compares a with b
DblAddCmp(sx, a, sy, b, e, c) ==
    DblRound(IF sx = sy \/ c >= 0 THEN sx ELSE sy,
             IF sx = sy THEN BAdd(a, b)
             ELSE IF c >= 0 THEN BSub(a, b) ELSE BSub(b, a),
             e, FALSE)
DblAddMag(sx, a, sy, b, e) == DblAddCmp(sx, a, sy, b, e, BCmp(a, b))
DblAddAt(x, y, e) ==
    DblAddMag(x.s, BShl(x.m, x.e - e), y.s, BShl(y.m, y.e - e), e)
DblAdd(x, y) ==
    IF x.s = 0 THEN y
    ELSE IF y.s = 0 THEN x
    ELSE DblAddAt(x, y, IF x.e < y.e THEN x.e ELSE y.e)

\* x - y
DblSub(x, y) == DblAdd(x, DblNeg(y))

\* -1, 0 or 1 as x < y, x = y or x > y
DblCmpAt(x, y, tx, ty, e) ==
    IF tx # ty THEN (IF tx < ty THEN 0 - x.s ELSE x.s)
    ELSE x.s * BCmp(BShl(x.m, x.e - e), BShl(y.m, y.e - e))
DblCmp(x, y) ==
    IF x.s # y.s THEN (IF x.s < y.s THEN 0 - 1 ELSE 1)
    ELSE IF x.s = 0 THEN 0
    ELSE DblCmpAt(x, y, x.e + BBits(x.m), y.e + BBits(y.m),
                  IF x.e < y.e THEN x.e ELSE y.e)

DblLt(x, y) == DblCmp(x, y) < 0

\* Math.min(x, y) and Math.max(0, x)
DblMin(x, y) == IF DblLt(y, x) THEN y ELSE x
DblMax0(x) == IF x.s < 0 THEN DblZero ELSE x

\* a / 10^q rounded down, nine decimal digits at a time
RECURSIVE BDivPow10(_, _)
BDivPow10(a, q) ==
    IF q <= 0 THEN a
    ELSE BDivPow10(BDivInt(a, 10 ^ (IF q >= 9 THEN 9 ELSE q)).q, q - 9)

\* the magnitude n for which n / 10^p - |x| is as close to zero as
\* possible, the larger n if there are two.  For p >= 0 it is
\* a * 2^e + 1/2 rounded down, with a = m * 10^p; for p = -q < 0 it is
\* (2 * m * 2^up + d) / (2 * d) rounded down, with d = 2^down * 10^q and
\* 2^e = 2^up / 2^down.
DecRoundAt(a, e) ==
    IF e >= 0 THEN BShl(a, e)
    ELSE RoundUp(BShr(a, 0 - e), 0, BBit(a, (0 - e) - 1) = 1).m
DecRoundDiv(m, up, down, q) ==
    BDivPow10(BShr(BAdd(BShl(m, 1 + up), BShl(BMulPow10(<< 1 >>, q), down)),
                   down + 1), q)
DecRound(x, p) ==
    IF p >= 0 THEN DecRoundAt(BMulPow10(x.m, p), x.e)
    ELSE DecRoundDiv(x.m, IF x.e > 0 THEN x.e ELSE 0,
                     IF x.e < 0 THEN 0 - x.e ELSE 0, 0 - p)

\* 0.5, 0.75, 0.0001, 1e21, Math.PI / 4 = 0.7853981633974483,
\* 1 - Math.PI / 4 = 0.21460183660255172 and
\* Math.cos(Math.PI / 2) = 6.123233995736766e-17
DblHalf == [s |-> 1, m |-> << 1 >>, e |-> 0 - 1]
DblThreeQuarters == [s |-> 1, m |-> << 3 >>, e |-> 0 - 2]
DblTenThousandth == [s |-> 1, m |-> << 813, 6370, 6330, 5229, 1 >>, e |-> 0 - 66]
DblTenPow21 == [s |-> 1, m |-> << 3829, 2929, 2963, 867 >>, e |-> 21]
QuarterPi == [s |-> 1, m |-> << 1443, 5188, 4058, 1608 >>, e |-> 0 - 50]
OneMinusQuarterPi == [s |-> 1, m |-> << 6749, 3003, 4133, 439 >>, e |-> 0 - 50]
CosHalfPi == [s |-> 1, m |-> << 7175, 6306, 2444, 844, 1 >>, e |-> 0 - 106]

----------------------------------------------------------------------------
(* Volume display *)

\* A read-out is the dash, or the sign s and the digits m (a magnitude) of
\* a decimal text: 'exp' is s * m / 10^4 followed by 'e' and e, 'fixed' is
\* s * m / 10^6 with six decimals, and 'string' is String(x), the text of
\* the Number s * m * 2^e itself.
Dash == [kind |-> "dash", s |-> 0, m |-> << >>, e |-> 0]

\* x.toExponential(4): the digits m (10^4 <= m < 10^5) and the exponent e.
\* With 10^e0 <= 2^k <= |x| < 2^(k+1) the exponent is e0 or e0 + 1, and
\* digits that round to 10^5 are 10^4 with the exponent one higher.
expDigits(s, n, e) ==
    IF n = BInt(10 ^ 5)
    THEN [kind |-> "exp", s |-> s, m |-> BInt(10 ^ 4), e |-> e + 1]
    ELSE [kind |-> "exp", s |-> s, m |-> n, e |-> e]
expAt(x, e) == expDigits(x.s, DecRound(x, 4 - e), e)
expFrom(x, e0) ==
    expAt(x, IF BCmp(DecRound(x, 4 - e0), BInt(10 ^ 5)) <= 0 THEN e0
             ELSE e0 + 1)
toExponential4(x) ==
    IF x.s = 0 THEN [kind |-> "exp", s |-> 0, m |-> << >>, e |-> 0]
    ELSE expFrom(x, ((x.e + BBits(x.m) - 1) * 30103) \div 100000)

\* x.toFixed(6): the number of millionths, or String(x) from 1e21 on
toFixed6(x) ==
    IF DblLt([x EXCEPT !.s = Abs(@)], DblTenPow21)
    THEN [kind |-> "fixed", s |-> x.s, m |-> DecRound(x, 6), e |-> 0 - 6]
    ELSE [kind |-> "string", s |-> x.s, m |-> x.m, e |-> x.e]

formatM3(m3) ==
    IF m3.s = 0 THEN Dash
    ELSE IF DblLt(m3, DblTenThousandth) THEN toExponential4(m3)
    ELSE toFixed6(m3)
formatVolume(mm3) == formatM3(DblDivInt(mm3, 10 ^ 9))

----------------------------------------------------------------------------
(* Volume Calculation *)

\* baseVol without the lip
baseVolSlabOnly(v) == DblMulInt(DblMulInt(DblInt(v.W), v.T), v.L)

\* Base L-shape volume: v.L * (v.W * v.T + v.Lw * v.Lh)
baseVol(v) ==
    DblMul(DblInt(v.L), DblAdd(DblMulInt(DblInt(v.W), v.T),
                               DblMulInt(DblInt(v.Lw), v.Lh)))

\* chamferVol with the hypotenuse Tr * sqrt(2) taken for the leg
chamferVolHypotenuse(v) == DblMulInt(DblMulInt(DblInt(v.Tr), v.Tr), v.L)

\* 45 degree chamfer: right isosceles triangle with legs = Tr
\* 0.5 * v.Tr * v.Tr * v.L
chamferVol(v) == DblMulInt(DblMulInt(DblMulInt(DblHalf, v.Tr), v.Tr), v.L)

\* bullnoseVol removing the quarter-circle instead of its complement
bullnoseVolQuarterCircle(v) ==
    DblMulInt(DblMul(DblMulInt(DblInt(v.Tr), v.Tr), QuarterPi), v.L)

\* bullnoseVol removing the whole square Tr * Tr
bullnoseVolSquare(v) == DblMulInt(DblMulInt(DblInt(v.Tr), v.Tr), v.L)

\* Bullnose: square minus quarter-circle = Tr^2 * (1 - pi/4)
\* v.Tr * v.Tr * (1 - Math.PI / 4) * v.L
bullnoseVol(v) ==
    DblMulInt(DblMul(DblMulInt(DblInt(v.Tr), v.Tr), OneMinusQuarterPi), v.L)

\* Edge removal volume
edgeVol(v) == IF v.edge = "chamfer" THEN chamferVol(v) ELSE bullnoseVol(v)

\* volOne without Math.max(0, .)
volOneUnfloored(v) == DblSub(baseVol(v), edgeVol(v))

\* const volOne = Math.max(0, baseVol - edgeVol)
volOneOf(v) == DblMax0(DblSub(baseVol(v), edgeVol(v)))

\* volTotal with the edge removed once for the whole batch
volTotalEdgeOnce(v) ==
    DblMax0(DblSub(DblMulInt(baseVol(v), v.qty), edgeVol(v)))

\* const volTotal = volOne * qty
volTotalOf(v) == DblMulInt(volOneOf(v), v.qty)

\* calculate without the early return on a failed validation
calculateUngated(v) ==
    LET r == validate(v)
    IN  [validationMsg |-> r.errors, inputError |-> r.errorInputs,
         volumeOne |-> formatVolume(volOneOf(v)),
         volumeTotal |-> formatVolume(volTotalOf(v))]

\* calculate(): what it leaves in the validation message, the input marks
\* and the two volume read-outs.
calculate(v) ==
    LET r == validate(v)
    IN  IF ~r.ok
        THEN [validationMsg |-> r.errors, inputError |-> r.errorInputs,
              volumeOne |-> Dash, volumeTotal |-> Dash]
        ELSE [validationMsg |-> r.errors, inputError |-> r.errorInputs,
              volumeOne |-> formatVolume(volOneOf(v)),
              volumeTotal |-> formatVolume(volTotalOf(v))]

----------------------------------------------------------------------------
(* Cross-Section Drawing *)

\* The 'd' attribute and the annotation group of the static markup.
EmptyPath == [scale |-> DblZero, cmds |-> <<>>]
EmptyDims == [scale |-> DblZero, polys |-> <<>>, labels |-> <<>>]

Cmd(op, x, y, r) == [op |-> op, x |-> x, y |-> y, r |-> r]
Label(tag, text) == [tag |-> tag, text |-> text]

\* scale = Math.min(drawW / v.W, drawH / totalH) * 0.75 with drawW = 540
\* and drawH = 340; needs W > 0.  drawH / 0 is Infinity.
leastScale(byW, totalH) ==
    IF totalH = 0 THEN byW ELSE DblMin(byW, DblQuot(340, totalH))
crossScale(v) ==
    DblMul(leastScale(DblQuot(540, v.W), v.T + v.Lh), DblThreeQuarters)

\* const sTr = v.Tr * scale
sTrOf(v, scale) == DblMul(DblInt(v.Tr), scale)

\* The L-shape path.  A point (x, y) stands for the pixel
\* (ox + x * scale, oy + y * scale).  The edge is drawn if (sTr > 0.5).
crossPath(v, sTr) ==
    LET W == v.W  T == v.T  Lw == v.Lw  Lh == v.Lh  Tr == v.Tr
        rest == << Cmd("L", W, T + Lh, 0), Cmd("L", W - Lw, T + Lh, 0),
                   Cmd("L", W - Lw, T, 0), Cmd("L", 0, T, 0),
                   Cmd("Z", 0, 0, 0) >>
    IN  IF DblLt(DblHalf, sTr)
        THEN IF v.edge = "bullnose"
             THEN << Cmd("M", 0, 0, 0), Cmd("L", W - Tr, 0, 0),
                     Cmd("A", W, Tr, Tr) >> \o rest
             ELSE << Cmd("M", 0, 0, 0), Cmd("L", W - Tr, 0, 0),
                     Cmd("L", W, Tr, 0) >> \o rest
        ELSE << Cmd("M", 0, 0, 0), Cmd("L", W, 0, 0) >> \o rest

\* Dimension annotations, and the edge annotation if (sTr > 0.5).
crossAnnotations(v, sTr) ==
    << Label("W", v.W), Label("T", v.T), Label("Lw", v.Lw), Label("Lh", v.Lh) >>
    \o (IF DblLt(DblHalf, sTr)
        THEN IF v.edge = "bullnose"
             THEN << Label("TrBullnose", v.Tr) >>
             ELSE << Label("TrChamfer", v.Tr) >>
        ELSE << >>)

\* the two paths and the annotation group written at the end
crossWritten(scale, path, labels) ==
    [lShape |-> [scale |-> scale, cmds |-> path],
     lShapeHatch |-> [scale |-> scale, cmds |-> path],
     dims |-> [scale |-> scale, polys |-> << >>, labels |-> labels]]

\* the drawing for the edge depth sTr in pixels
crossWithEdge(v, scale, sTr) ==
    crossWritten(scale, crossPath(v, sTr), crossAnnotations(v, sTr))

\* the drawing at a scale
crossAtScale(v, scale) == crossWithEdge(v, scale, sTrOf(v, scale))

\* drawCrossSection clearing the drawing when there is nothing to draw
drawCrossSectionClearing(v, before) ==
    IF v.W <= 0 \/ v.T <= 0
    THEN [lShape |-> EmptyPath, lShapeHatch |-> EmptyPath, dims |-> EmptyDims]
    ELSE crossAtScale(v, crossScale(v))

\* drawCrossSection(): the drawing it leaves, given the drawing before it.
drawCrossSection(v, before) ==
    IF v.W <= 0 \/ v.T <= 0 THEN before
    ELSE crossAtScale(v, crossScale(v))

----------------------------------------------------------------------------
(* 3D Isometric Drawing *)

\* Cross-section coordinates are kept in thousandths of a millimetre: a
\* point (x, y) is the code's Numbers to the nearest thousandth.  'above'
\* tells, for the last point of the arc, that the Number the code holds
\* for y is above the whole millimetres T - Tr, by what the cosine adds.
Milli == 10 * 100

\* const segments = 12
segments == 12

\* Math.sin(angle) for angle = (Math.PI / 2) * (i / segments), i = 0 .. 12
SinAngles ==
    << DblZero,   \* 0.0
       [s |-> 1, m |-> << 6701, 1974, 5204, 534 >>, e |-> 0 - 51],   \* 0.13052619222005157
       [s |-> 1, m |-> << 4201, 201, 503, 530 >>, e |-> 0 - 50],   \* 0.25881904510252074
       [s |-> 1, m |-> << 2403, 5493, 6313, 4347, 1 >>, e |-> 0 - 54],   \* 0.3826834323650898
       [s |-> 1, m |-> << 8191, 8191, 8191, 8191, 1 >>, e |-> 0 - 54],   \* 0.49999999999999994
       [s |-> 1, m |-> << 2549, 7764, 7975, 4986 >>, e |-> 0 - 52],   \* 0.6087614290087207
       [s |-> 1, m |-> << 3827, 3326, 2534, 2896 >>, e |-> 0 - 51],   \* 0.7071067811865475
       [s |-> 1, m |-> << 4681, 3420, 1233, 6499 >>, e |-> 0 - 52],   \* 0.7933533402912352
       [s |-> 1, m |-> << 1621, 353, 3933, 7094 >>, e |-> 0 - 52],   \* 0.8660254037844386
       [s |-> 1, m |-> << 1699, 7370, 3449, 7568 >>, e |-> 0 - 52],   \* 0.9238795325112867
       [s |-> 1, m |-> << 7957, 6725, 5969, 7633, 1 >>, e |-> 0 - 53],   \* 0.9659258262890683
       [s |-> 1, m |-> << 2203, 5987, 6820, 8051, 1 >>, e |-> 0 - 53],   \* 0.9914448613738104
       [s |-> 1, m |-> << 1 >>, e |-> 0] >>   \* 1.0
sinAngle(i) == SinAngles[i + 1]

\* Math.cos(angle) for the same angles
CosAngles ==
    << [s |-> 1, m |-> << 1 >>, e |-> 0],   \* 1.0
       [s |-> 1, m |-> << 2203, 5987, 6820, 8051, 1 >>, e |-> 0 - 53],   \* 0.9914448613738104
       [s |-> 1, m |-> << 7957, 6725, 5969, 7633, 1 >>, e |-> 0 - 53],   \* 0.9659258262890683
       [s |-> 1, m |-> << 1699, 7370, 3449, 7568 >>, e |-> 0 - 52],   \* 0.9238795325112867
       [s |-> 1, m |-> << 3243, 706, 7866, 5996, 1 >>, e |-> 0 - 53],   \* 0.8660254037844387
       [s |-> 1, m |-> << 4681, 3420, 1233, 6499 >>, e |-> 0 - 52],   \* 0.7933533402912352
       [s |-> 1, m |-> << 7117, 5113, 1945, 3393, 1 >>, e |-> 0 - 53],   \* 0.7071067811865476
       [s |-> 1, m |-> << 2549, 7764, 7975, 4986 >>, e |-> 0 - 52],   \* 0.6087614290087207
       [s |-> 1, m |-> << 1, 0, 0, 0, 1 >>, e |-> 0 - 53],   \* 0.5000000000000001
       [s |-> 1, m |-> << 2649, 3421, 7722, 3134 >>, e |-> 0 - 52],   \* 0.38268343236508984
       [s |-> 1, m |-> << 4201, 201, 503, 530 >>, e |-> 0 - 50],   \* 0.25881904510252074
       [s |-> 1, m |-> << 725, 7021, 1347, 362, 1 >>, e |-> 0 - 55],   \* 0.1305261922200517
       CosHalfPi >>   \* 6.123233995736766e-17
cosAngle(i) == CosAngles[i + 1]

Pt(x, y) == [x |-> x, y |-> y, above |-> FALSE]
PtMm(x, y) == Pt(x * Milli, y * Milli)

\* the Number x to the nearest thousandth, in thousandths
Thousandths(x) == x.s * BToInt(DecRound(x, 3))

\* c - tr + tr * f for the integers c and tr and the Number f: the
\* difference c - tr is exact, the product and the sum are rounded
arcCoord(c, tr, f) == DblAdd(DblInt(c - tr), DblMulInt(f, tr))

\* py = T - Tr + Tr * Math.cos(angle) for the last point of the arc, where
\* the angle is Math.PI / 2 and its cosine 6.1e-17 and not 0
arcEndY(v) == arcCoord(v.T, v.Tr, cosAngle(segments))

\* the i-th point of the quarter-circle, i = 0 .. segments: the Numbers px
\* and py to the nearest thousandth; the two ends of the arc are whole
\* millimetres, but for what the cosine of the last one adds
arcPoint(v, i) ==
    [x |-> Thousandths(arcCoord(v.W, v.Tr, sinAngle(i))),
     y |-> Thousandths(arcCoord(v.T, v.Tr, cosAngle(i))),
     above |-> (i = segments /\ DblLt(DblInt(v.T - v.Tr), arcEndY(v)))]

\* csTop closed explicitly: the first point repeated at the end
csTopClosed(v) ==
    LET W == v.W  T == v.T  Lw == v.Lw  Lh == v.Lh  Tr == v.Tr
        lip == << PtMm(W, 0 - Lh), PtMm(W - Lw, 0 - Lh), PtMm(W - Lw, 0),
                  PtMm(0, 0), PtMm(0, T) >>
    IN  IF Tr > 0
        THEN IF v.edge = "bullnose"
             THEN << PtMm(0, T) >>
                  \o [k \in 1..(segments + 1) |-> arcPoint(v, k - 1)]
                  \o lip
             ELSE << PtMm(0, T), PtMm(W - Tr, T), PtMm(W, T - Tr) >> \o lip
        ELSE << PtMm(0, T), PtMm(W, T) >> \o lip

\* Cross-section points in x-y
csTop(v) ==
    LET W == v.W  T == v.T  Lw == v.Lw  Lh == v.Lh  Tr == v.Tr
        lip == << PtMm(W, 0 - Lh), PtMm(W - Lw, 0 - Lh), PtMm(W - Lw, 0),
                  PtMm(0, 0) >>
    IN  IF Tr > 0
        THEN IF v.edge = "bullnose"
             THEN << PtMm(0, T) >>
                  \o [k \in 1..(segments + 1) |-> arcPoint(v, k - 1)]
                  \o lip
             ELSE << PtMm(0, T), PtMm(W - Tr, T), PtMm(W, T - Tr) >> \o lip
        ELSE << PtMm(0, T), PtMm(W, T) >> \o lip

\* baseScale = 180 / Math.max(W, L, totalH)
baseScale(v) ==
    LET totalH == v.T + v.Lh
        maxDim == IF v.W >= v.L /\ v.W >= totalH THEN v.W
                  ELSE IF v.L >= totalH THEN v.L ELSE totalH
    IN  DblQuot(180, maxDim)

\* iso(x3, y3, z3) = [cx + (x3 - z3) * ax, cy + (x3 + z3 - 2 * y3) * ay]
\* with ax = cos(pi/6) * baseScale and ay = baseScale / 2: the screen point
\* is kept as the two combinations the transform multiplies.
iso(x3, y3, z3) == [u |-> x3 - z3, w |-> x3 + z3 - 2 * y3]

\* csTop[i + 1][1] - csTop[i][1] for the points p and q, in thousandths: a
\* difference below a thousandth counts as one thousandth of its sign
edgeDy(p, q) ==
    IF q.y # p.y THEN q.y - p.y
    ELSE IF p.above /\ ~q.above THEN 0 - 1
    ELSE IF q.above /\ ~p.above THEN 1
    ELSE 0

\* fill and opacity of the side face on the edge (dx, dy)
faceTone(dx, dy) ==
    LET eps == Milli \div 100                   \* 0.01
    IN  IF Abs(dy) < eps /\ dx > 0 THEN [fill |-> "cTop", opacity |-> "1"]
        ELSE IF Abs(dx) < eps /\ dy < 0 THEN [fill |-> "cSide", opacity |-> "1"]
        ELSE IF Abs(dx) < eps /\ dy > 0 THEN [fill |-> "cFront", opacity |-> "0.5"]
        ELSE IF Abs(dy) < eps /\ dx < 0 THEN [fill |-> "cTop", opacity |-> "0.4"]
        ELSE IF dx > 0 /\ dy < 0 THEN [fill |-> "accent", opacity |-> "1"]
        ELSE [fill |-> "cFront", opacity |-> "0.6"]

\* sideFaces with a face on the closing edge too, from the last point back
\* to the first
sideFacesClosed(v, cs) ==
    LET n == Len(cs)
        z == v.L * Milli
        next(i) == (i % n) + 1
        front(i) == iso(cs[i].x, cs[i].y, 0)
        back(i) == iso(cs[i].x, cs[i].y, z)
    IN  [i \in 1..n |->
            [pts |-> << front(i), front(next(i)), back(next(i)), back(i) >>,
             tone |-> faceTone(cs[next(i)].x - cs[i].x,
                               edgeDy(cs[i], cs[next(i)]))]]

\* side faces (front[i], front[i+1], back[i+1], back[i]) for i < n - 1
sideFaces(v, cs) ==
    LET n == Len(cs)
        z == v.L * Milli
        front(i) == iso(cs[i].x, cs[i].y, 0)
        back(i) == iso(cs[i].x, cs[i].y, z)
    IN  [i \in 1..(n - 1) |->
            [pts |-> << front(i), front(i + 1), back(i + 1), back(i) >>,
             tone |-> faceTone(cs[i + 1].x - cs[i].x,
                               edgeDy(cs[i], cs[i + 1]))]]

\* Front face
frontFace(cs) ==
    [pts |-> [i \in 1..Len(cs) |-> iso(cs[i].x, cs[i].y, 0)],
     tone |-> [fill |-> "cFront", opacity |-> "1"]]

\* Dimension labels, and the edge label
isoLabels(v) ==
    << Label("L", v.L), Label("W", v.W), Label("T", v.T), Label("Lh", v.Lh),
       Label("Lw", v.Lw) >>
    \o (IF v.Tr > 0 THEN << Label("Tr", v.Tr) >> ELSE << >>)

\* drawIsometric(): the drawing it leaves, given the drawing before it.
isoOf(v, cs) ==
    [lShape |-> EmptyPath,
     lShapeHatch |-> EmptyPath,
     dims |-> [scale |-> baseScale(v),
               polys |-> sideFaces(v, cs) \o << frontFace(cs) >>,
               labels |-> isoLabels(v)]]

drawIsometric(v, before) ==
    IF v.W <= 0 \/ v.T <= 0 \/ v.L <= 0 THEN before ELSE isoOf(v, csTop(v))

\* Unified draw
draw(view, v, before) ==
    IF view = "cross" THEN drawCrossSection(v, before)
                      ELSE drawIsometric(v, before)

----------------------------------------------------------------------------
(* Auto-fit radius *)

\* Math.round(Lw + T - Math.sqrt(2 * Lw * T)) for Lw > 0 and T > 0:
\* Lw + T - m, with m the least integer such that m + 0.5 >= sqrt(2 * Lw * T).
autoFitRadius(Lw, T) ==
    LET m == CHOOSE k \in 0..(Lw + T) :
                 /\ (2 * k + 1) * (2 * k + 1) >= 8 * Lw * T
                 /\ (k = 0 \/ (2 * k - 1) * (2 * k - 1) < 8 * Lw * T)
    IN  Lw + T - m

----------------------------------------------------------------------------
(* The page *)

\* updateEdgeUI(): the auto-fit button is shown for bullnose only
updateEdgeUI(bullnoseChecked) == bullnoseChecked

\* calculate(); draw(); with the field texts fs, as every handler that
\* recomputes runs them, one after the other.
\* what calculate() leaves in the read-outs
Calculated(c) ==
    /\ validationMsg' = c.validationMsg
    /\ inputError' = c.inputError
    /\ volumeOne' = c.volumeOne
    /\ volumeTotal' = c.volumeTotal

\* what draw() leaves in the drawing
Drawn(d) ==
    /\ lShape' = d.lShape
    /\ lShapeHatch' = d.lShapeHatch
    /\ dims' = d.dims

Recompute(fs, bullnoseChecked, view) ==
    /\ Calculated(calculate(getValues(fs, bullnoseChecked)))
    /\ Drawn(draw(view, getValues(fs, bullnoseChecked),
                  [lShape |-> lShape, lShapeHatch |-> lShapeHatch,
                   dims |-> dims]))

\* 'input' on one of the seven fields: the field holds the new text
Input(id, text) ==
    /\ edits < MaxEdits
    /\ text # fields[id]
    /\ fields' = [fields EXCEPT ![id] = text]
    /\ edits' = edits + 1
    /\ Recompute(fields', edgeBullnose, currentView)
    /\ UNCHANGED <<edgeBullnose, currentView, autoFitShown>>

\* View toggle
ViewClick(view) ==
    /\ currentView' = view
    /\ Drawn(draw(view, getValues(fields, edgeBullnose),
                  [lShape |-> lShape, lShapeHatch |-> lShapeHatch,
                   dims |-> dims]))
    /\ UNCHANGED <<fields, edgeBullnose, autoFitShown, display, edits>>

BtnCrossClick == ViewClick("cross")
BtnIsoClick == ViewClick("iso")

\* Edge type toggle: 'change' on the radio button that becomes checked
EdgeChange(bullnoseChecked) ==
    /\ edgeBullnose # bullnoseChecked
    /\ edgeBullnose' = bullnoseChecked
    /\ autoFitShown' = updateEdgeUI(bullnoseChecked)
    /\ Recompute(fields, bullnoseChecked, currentView)
    /\ UNCHANGED <<fields, currentView, edits>>

\* Auto-fit click guarded by Lw > 0 || T > 0: Math.sqrt of a negative
\* product is NaN, which the field keeps as a text that parses to 0
AutoFitClickEitherPositive ==
    /\ autoFitShown
    /\ LET Lw == ParseFloatOr0(fields["lipWidth"])
           T == ParseFloatOr0(fields["flatThickness"])
       IN  IF Lw > 0 \/ T > 0
           THEN /\ fields' = [fields EXCEPT
                                 !["chamfer"] =
                                     IF Lw > 0 /\ T > 0
                                     THEN Text(autoFitRadius(Lw, T))
                                     ELSE IF Lw * T = 0 THEN Text(Lw + T)
                                     ELSE Blank]
                /\ Recompute(fields', edgeBullnose, currentView)
                /\ UNCHANGED <<edgeBullnose, currentView, autoFitShown, edits>>
           ELSE UNCHANGED vars

\* Auto-fit click (the button can be clicked only while it is shown)
AutoFitClick ==
    /\ autoFitShown
    /\ LET Lw == ParseFloatOr0(fields["lipWidth"])
           T == ParseFloatOr0(fields["flatThickness"])
       IN  IF Lw > 0 /\ T > 0
           THEN /\ fields' = [fields EXCEPT
                                 !["chamfer"] = Text(autoFitRadius(Lw, T))]
                /\ Recompute(fields', edgeBullnose, currentView)
                /\ UNCHANGED <<edgeBullnose, currentView, autoFitShown, edits>>
           ELSE UNCHANGED vars

----------------------------------------------------------------------------
(* The older implementation, with a chamfer only (app.js) *)

app_getValues(fs) ==
    [L   |-> ParseFloatOr0(fs["length"]),
     W   |-> ParseFloatOr0(fs["width"]),
     T   |-> ParseFloatOr0(fs["flatThickness"]),
     Lw  |-> ParseFloatOr0(fs["lipWidth"]),
     Lh  |-> ParseFloatOr0(fs["lipHeight"]),
     C   |-> ParseFloatOr0(fs["chamfer"]),
     qty |-> ParseIntOr1(fs["quantity"])]

app_formatM3(m3) ==
    IF m3.s = 0 THEN Dash
    ELSE IF DblLt(m3, DblTenThousandth) THEN toExponential4(m3)
    ELSE toFixed6(m3)
app_formatVolume(mm3) == app_formatM3(DblDivInt(mm3, 10 ^ 9))

\* Base L-shape volume
app_baseVol(v) ==
    DblMul(DblInt(v.L), DblAdd(DblMulInt(DblInt(v.W), v.T),
                               DblMulInt(DblInt(v.Lw), v.Lh)))

\* chamferVol for a chamfer on two edges
app_chamferVolTwoEdges(v) == DblMulInt(DblMulInt(DblInt(v.C), v.C), v.L)

\* Volume per chamfered edge = 1/2 * C * C * L
app_chamferVol(v) == DblMulInt(DblMulInt(DblMulInt(DblHalf, v.C), v.C), v.L)

app_volOne(v) == DblMax0(DblSub(app_baseVol(v), app_chamferVol(v)))
app_volTotal(v) == DblMulInt(app_volOne(v), v.qty)

\* calculate(): the two volume read-outs (there is no validation)
app_calculate(v) ==
    [volumeOne |-> app_formatVolume(app_volOne(v)),
     volumeTotal |-> app_formatVolume(app_volTotal(v))]

\* Cross-section points in x-y (with chamfer on the top-right corner)
app_csTop(v) ==
    LET W == v.W  T == v.T  Lw == v.Lw  Lh == v.Lh  C == v.C
    IN  IF C > 0
        THEN << PtMm(0, T), PtMm(W - C, T), PtMm(W, T - C), PtMm(W, 0 - Lh),
                PtMm(W - Lw, 0 - Lh), PtMm(W - Lw, 0), PtMm(0, 0) >>
        ELSE << PtMm(0, T), PtMm(W, T), PtMm(W, 0 - Lh),
                PtMm(W - Lw, 0 - Lh), PtMm(W - Lw, 0), PtMm(0, 0) >>

----------------------------------------------------------------------------
(* Inputs *)

Texts(lo, hi) == {Text(n) : n \in lo..hi}

\* the grid of field contents the page is loaded with
GridInputs ==
    [length        : Texts(0, MaxL),
     width         : Texts(0, MaxW),
     flatThickness : Texts(0, MaxT),
     lipWidth      : Texts(0, MaxLw),
     lipHeight     : Texts(0, MaxLh),
     chamfer       : Texts(0 - 1, MaxTr),
     quantity      : Texts(0 - 1, MaxQty)]

Input7(L, W, T, Lw, Lh, Tr, qty) ==
    [length |-> L, width |-> W, flatThickness |-> T, lipWidth |-> Lw,
     lipHeight |-> Lh, chamfer |-> Tr, quantity |-> qty]

\* the worked example of docs/formula.md
DocExample ==
    Input7(Text(1000), Text(700), Text(100), Text(150), Text(200), Text(50),
           Text(1))

\* further inputs: the lip as wide as the slab, the auto-fit example, an
\* edge depth close to the thickness of a thick and narrow slab (with a
\* short and with a long lip), an edge depth equal to the width, three
\* units whose volume ends in half a shown digit, an edge depth of 1 mm on
\* a slab 1 m wide, the edge depth and the quantity left empty, and every
\* field left empty
DocInputs ==
    { DocExample,
      [DocExample EXCEPT !["lipWidth"] = Text(700)],
      [DocExample EXCEPT !["lipWidth"] = Text(100)],
      [DocExample EXCEPT !["chamfer"] = Blank, !["quantity"] = Blank],
      [DocExample EXCEPT !["width"] = Text(1000), !["chamfer"] = Text(1)],
      Input7(Text(1), Text(2), Text(7), Text(1), Text(1), Text(6), Text(2)),
      Input7(Text(1), Text(2), Text(7), Text(1), Text(4), Text(6), Text(1)),
      Input7(Text(1), Text(2), Text(3), Text(1), Text(1), Text(2), Text(1)),
      Input7(Text(1000), Text(700), Text(100), Text(100), Text(100), Text(3),
             Text(3)),
      Input7(Blank, Blank, Blank, Blank, Blank, Blank, Blank) }

\* what the user types into a field
TypedTexts(id) ==
    IF id = "quantity"
    THEN {Blank, Text(0 - 1), Text(3)}
    ELSE {Blank, Text(0 - 1), Text(100), Text(700)}

----------------------------------------------------------------------------
(* Specifications *)

\* Init: the script has run to its end on the loaded page:
\* updateEdgeUI(); calculate(); draw();
Loaded(fs, bullnoseChecked, c, d) ==
    /\ fields = fs
    /\ edgeBullnose = bullnoseChecked
    /\ currentView = "cross"
    /\ autoFitShown = updateEdgeUI(bullnoseChecked)
    /\ validationMsg = c.validationMsg
    /\ inputError = c.inputError
    /\ volumeOne = c.volumeOne
    /\ volumeTotal = c.volumeTotal
    /\ lShape = d.lShape
    /\ lShapeHatch = d.lShapeHatch
    /\ dims = d.dims
    /\ edits = 0

Load(fs, bullnoseChecked) ==
    Loaded(fs, bullnoseChecked,
           calculate(getValues(fs, bullnoseChecked)),
           draw("cross", getValues(fs, bullnoseChecked),
                [lShape |-> EmptyPath, lShapeHatch |-> EmptyPath,
                 dims |-> EmptyDims]))

Init == \E b \in BOOLEAN : Load(DocExample, b)

LoadInit == \E fs \in GridInputs \cup DocInputs, b \in BOOLEAN : Load(fs, b)

Next ==
    \/ \E id \in FieldIds : \E text \in TypedTexts(id) : Input(id, text)
    \/ BtnCrossClick
    \/ BtnIsoClick
    \/ \E b \in BOOLEAN : EdgeChange(b)
    \/ AutoFitClick

LoadNext ==
    \/ BtnCrossClick
    \/ BtnIsoClick
    \/ \E b \in BOOLEAN : EdgeChange(b)
    \/ AutoFitClick

\* a session of at most MaxEdits field edits, from the documented example
Spec == Init /\ [][Next]_vars

\* the page loaded with any input of the grid, then clicked on
LoadSpec == LoadInit /\ [][LoadNext]_vars

----------------------------------------------------------------------------
(* Properties *)

\* the current Parameter Set
V == getValues(fields, edgeBullnose)

Shown == [lShape |-> lShape, lShapeHatch |-> lShapeHatch, dims |-> dims]
EmptyDrawing == [lShape |-> EmptyPath, lShapeHatch |-> EmptyPath,
                 dims |-> EmptyDims]

MsgL == "Length (L) must be greater than 0."
MsgW == "Total Width (W) must be greater than 0."
MsgT == "Flat Thickness (T) must be greater than 0."
MsgLw == "Lip Width (Lw) must be greater than 0."
MsgLh == "Lip Drop Height (Lh) must be greater than 0."
MsgTrNeg == "Tr cannot be negative."
MsgQty == "Quantity must be at least 1."
MsgTrT == "Tr must be less than Flat Thickness (T)."
MsgLwW == "Lip Width (Lw) must be less than Total Width (W)."
AllMsgs == {MsgL, MsgW, MsgT, MsgLw, MsgLh, MsgTrNeg, MsgQty, MsgTrT, MsgLwW}

Count(seq, m) == Cardinality({k \in 1..Len(seq) : seq[k] = m})

\* the invariant set of the data model, but for the lip/width relationship
OtherInvariantsHold(v) ==
    /\ v.L > 0 /\ v.W > 0 /\ v.T > 0 /\ v.Lw > 0 /\ v.Lh > 0
    /\ v.Tr >= 0
    /\ (v.Tr > 0 => v.Tr < v.T)
    /\ v.qty >= 1

\* the invariant set of the data model
InvariantSetHolds(v) == OtherInvariantsHold(v) /\ v.Lw < v.W

\* the messages of the invariants that v violates
ViolatedInvariants(v) ==
    {m \in AllMsgs :
        \/ m = MsgL /\ ~(v.L > 0)
        \/ m = MsgW /\ ~(v.W > 0)
        \/ m = MsgT /\ ~(v.T > 0)
        \/ m = MsgLw /\ ~(v.Lw > 0)
        \/ m = MsgLh /\ ~(v.Lh > 0)
        \/ m = MsgTrNeg /\ ~(v.Tr >= 0)
        \/ m = MsgQty /\ ~(v.qty >= 1)
        \/ m = MsgTrT /\ ~(v.Tr > 0 => v.Tr < v.T)
        \/ m = MsgLwW /\ ~(v.Lw < v.W)}

\* the same, a relationship counting only between two positive fields
ReportedViolations(v) ==
    {m \in ViolatedInvariants(v) :
        /\ m = MsgTrT => v.T > 0
        /\ m = MsgLwW => (v.Lw > 0 /\ v.W > 0)}

Max0(n) == IF n < 0 THEN 0 ELSE n

\* x > 0 to the nearest mm3
Nearest(x) == BToInt(DecRound(x, 0))

\* n / 2 for an integer n
HalfOf(n) == DblScale(DblInt(n), 0 - 1)

Fixed6(m) == [kind |-> "fixed", s |-> 1, m |-> BInt(m), e |-> 0 - 6]

\* C1: validate() returns true exactly when the whole invariant set holds
\* for the current Parameter Set, and the message list it leaves is empty
\* exactly then.
C1_ValidateIffInvariantSet ==
    /\ validate(V).ok = InvariantSetHolds(V)
    /\ (validationMsg = << >>) = InvariantSetHolds(V)
    /\ (validate(V).errors = << >>) = InvariantSetHolds(V)

C1_Witness ==
    /\ InvariantSetHolds(V) /\ V.Tr > 0
    /\ validationMsg = << >>
    /\ volumeOne.kind # "dash"

\* C2 as stated: the message list holds one entry for each invariant the
\* Parameter Set violates, whatever the other fields are.
C2_OneEntryPerViolatedInvariant ==
    \A m \in ViolatedInvariants(V) : Count(validationMsg, m) = 1

\* C2 as amended: the message list holds exactly one entry for each violated
\* positivity, sign or quantity invariant, and one for a violated
\* relationship (Tr < T, Lw < W) only when the fields it relates are
\* positive; it holds nothing else.
C2_OneEntryPerReportedViolation ==
    \A m \in AllMsgs :
        Count(validationMsg, m) = (IF m \in ReportedViolations(V) THEN 1 ELSE 0)

C2_Witness ==
    /\ Len(validationMsg) >= 3
    /\ MsgLwW \in {validationMsg[k] : k \in 1..Len(validationMsg)}
    /\ MsgQty \in {validationMsg[k] : k \in 1..Len(validationMsg)}

\* C3: when Lw >= W and every other invariant holds, the only message is
\* the lip-width / total-width one and both volume read-outs are the dash.
C3_LipNotNarrowerThanSlab ==
    (V.Lw >= V.W /\ OtherInvariantsHold(V)) =>
        /\ validationMsg = << MsgLwW >>
        /\ volumeOne = Dash
        /\ volumeTotal = Dash

C3_Witness ==
    /\ V.Lw = 700 /\ V.W = 700 /\ OtherInvariantsHold(V)
    /\ validationMsg = << MsgLwW >>
    /\ volumeOne = Dash

\* C4 as stated: a step that ends in an invalid Parameter Set leaves no
\* drawing computed from it: the drawing is left as it was or is empty.
C4_NoDrawingFromInvalidSet ==
    [][ (~validate(V').ok) => (Shown' = Shown \/ Shown' = EmptyDrawing) ]_vars

\* C5 as stated: the read-outs and the drawing are what validate, calculate
\* and the projector of the active view give for the current Parameter Set
\* (for an invalid set: that, or no drawing at all).
C5_NoStaleState ==
    /\ [validationMsg |-> validationMsg, inputError |-> inputError,
        volumeOne |-> volumeOne, volumeTotal |-> volumeTotal] = calculate(V)
    /\ \/ Shown = draw(currentView, V, EmptyDrawing)
       \/ ~validate(V).ok /\ Shown = EmptyDrawing

\* C6: for a valid Parameter Set with a chamfer the single-unit volume is
\* max(0, L*(W*T + Lw*Lh) - Tr*Tr*L/2); for the documented example the base
\* is 100,000,000, the removal 1,250,000 and the volume 98,750,000 mm3.
C6_ChamferVolume ==
    (validate(V).ok /\ V.edge = "chamfer") =>
        LET x == volOneOf(V)
        IN  /\ x = HalfOf(Max0(2 * V.L * (V.W * V.T + V.Lw * V.Lh)
                                - V.Tr * V.Tr * V.L))
            /\ volumeOne = formatVolume(x)
            /\ fields = DocExample =>
                 /\ baseVol(V) = DblInt(100000000)
                 /\ edgeVol(V) = DblInt(1250000)
                 /\ x = DblInt(98750000)
                 /\ volumeOne = Fixed6(98750)

C6_Witness ==
    /\ fields = DocExample /\ ~edgeBullnose
    /\ volumeOne = Fixed6(98750)

\* C7 as stated: for the documented example with a bullnose the removal is
\* 536,516 mm3 and the volume 99,463,484 mm3, shown as 0.099463 m3.
C7_BullnoseExampleAsStated ==
    (fields = DocExample /\ edgeBullnose) =>
        /\ Nearest(edgeVol(V)) = 536516
        /\ Nearest(volOneOf(V)) = 99463484
        /\ volumeOne = Fixed6(99463)

\* C7 as amended: for the documented example with a bullnose the removal is
\* 536,505 mm3 and the volume 99,463,495 mm3, shown as 0.099463 m3.
C7_BullnoseExample ==
    (fields = DocExample /\ edgeBullnose) =>
        /\ Nearest(edgeVol(V)) = 536505
        /\ Nearest(volOneOf(V)) = 99463495
        /\ volumeOne = Fixed6(99463)

C7_Witness ==
    /\ fields = DocExample /\ edgeBullnose
    /\ volumeOne = Fixed6(99463)

\* C8: for a valid Parameter Set, with either edge type, the single-unit
\* and the total volume are not negative.
C8_VolumeNonNegative ==
    validate(V).ok =>
        /\ volOneOf(V).s >= 0
        /\ volTotalOf(V).s >= 0
        /\ volumeOne.s >= 0
        /\ volumeTotal.s >= 0

C8_Witness ==
    /\ validate(V).ok
    /\ DblSub(baseVol(V), edgeVol(V)).s < 0
    /\ volumeOne = Dash

\* C9: for a valid Parameter Set the single-unit volume does not depend on
\* the quantity, and the total is the single-unit volume for quantity 1
\* times the quantity (the product of the two Numbers), which is what the
\* total read-out shows.
C9_LinearInQuantity ==
    validate(V).ok =>
        LET one == volOneOf([V EXCEPT !.qty = 1])
        IN  /\ volOneOf(V) = one
            /\ volTotalOf(V) = DblMul(one, DblInt(V.qty))
            /\ volumeOne = formatVolume(one)
            /\ volumeTotal = formatVolume(DblMul(one, DblInt(V.qty)))

C9_Witness ==
    /\ validate(V).ok
    /\ V.qty >= 2
    /\ edgeBullnose /\ V.Tr > 0
    /\ volOneOf(V) # DblInt(Nearest(volOneOf(V)))
    /\ volumeTotal # Dash

\* C10: for a valid Parameter Set with edge depth 0 the single-unit volume
\* is L*(W*T + Lw*Lh), whichever the edge type.
C10_NoEdgeVolume ==
    (validate(V).ok /\ V.Tr = 0) =>
        /\ volOneOf(V) = DblInt(V.L * (V.W * V.T + V.Lw * V.Lh))
        /\ volOneOf([V EXCEPT !.edge = "chamfer"])
             = volOneOf([V EXCEPT !.edge = "bullnose"])

C10_Witness ==
    /\ validate(V).ok /\ V.Tr = 0 /\ edgeBullnose
    /\ volumeOne # Dash

\* C11: for Tr > 0 and L > 0 the chamfer removal 0.5*Tr*Tr*L is strictly
\* greater than the bullnose removal Tr*Tr*(1 - pi/4)*L, and for a valid
\* Parameter Set the bullnose single-unit volume is not smaller than the
\* chamfer one.
C11_ChamferRemovesMore ==
    (V.Tr > 0 /\ V.L > 0) =>
        /\ DblLt(bullnoseVol(V), chamferVol(V))
        /\ validate(V).ok =>
              ~DblLt(volOneOf([V EXCEPT !.edge = "bullnose"]),
                     volOneOf([V EXCEPT !.edge = "chamfer"]))

C11_Witness ==
    /\ validate(V).ok /\ V.Tr > 0 /\ edgeBullnose
    /\ volumeOne = formatVolume(volOneOf(V))
    /\ DblLt(volOneOf([V EXCEPT !.edge = "chamfer"]), volOneOf(V))

\* C12 as stated: an auto-fit click with Lw > 0 and T > 0 leaves in the edge
\* depth field the value Tr = Lw + T - sqrt(2*Lw*T), for which
\* (Lw - Tr)^2 + (T - Tr)^2 = Tr^2; for Lw = 100 and T = 100 it is 58.578
\* to a thousandth.
C12_AutoFitClosedForm ==
    [][ (AutoFitClick /\ V.Lw > 0 /\ V.T > 0) =>
          LET Lw == V.Lw
              T == V.T
              Tr == V'.Tr
          IN  /\ Tr <= Lw + T
              /\ (Lw + T - Tr) * (Lw + T - Tr) = 2 * Lw * T
              /\ (Lw - Tr) * (Lw - Tr) + (T - Tr) * (T - Tr) = Tr * Tr
              /\ (Lw = 100 /\ T = 100) => Tr * 1000 \in 58577..58579 ]_vars

\* the front face of the 3D drawing on screen: its last polygon
FrontShown == dims.polys[Len(dims.polys)]

\* the 3D drawing on screen is the one of the current Parameter Set
IsoShown ==
    /\ currentView = "iso"
    /\ Len(dims.polys) > 0
    /\ Shown = drawIsometric(V, EmptyDrawing)

\* C13 as stated: the cross-section polygon of a valid Parameter Set has six
\* vertices for Tr = 0, six plus two for a chamfer and six plus the arc
\* subdivision count for a bullnose.
C13_VertexCountAsStated ==
    validate(V).ok =>
        LET n == IF V.Tr = 0 THEN 6
                 ELSE IF V.edge = "chamfer" THEN 6 + 2 ELSE 6 + segments
        IN  /\ Len(csTop(V)) = n
            /\ IsoShown => Len(FrontShown.pts) = n

\* C13 as amended: the cross-section polygon of a valid Parameter Set has
\* six vertices for Tr = 0, seven for a chamfer (the corner replaced by two
\* vertices) and six plus the arc subdivision count for a bullnose (the
\* corner replaced by the segments + 1 points of the arc).
C13_VertexCount ==
    validate(V).ok =>
        LET n == IF V.Tr = 0 THEN 6
                 ELSE IF V.edge = "chamfer" THEN 6 + 1 ELSE 6 + segments
        IN  /\ Len(csTop(V)) = n
            /\ IsoShown => Len(FrontShown.pts) = n

C13_Witness ==
    /\ validate(V).ok /\ V.Tr > 0 /\ V.edge = "chamfer"
    /\ IsoShown
    /\ Len(FrontShown.pts) = 7

\* C14: drawCrossSection() with W <= 0 or T <= 0 is a no-op: whatever is on
\* screen, a step that ends in the cross view with such a Parameter Set
\* leaves the shape path, the hatch path and the annotation group as they
\* were, and the function returns its 'before' drawing for any drawing.
C14_CrossSectionNoOp ==
    [][ (currentView' = "cross" /\ (V'.W <= 0 \/ V'.T <= 0)) =>
          /\ Shown' = Shown
          /\ drawCrossSection(V', Shown) = Shown
          /\ drawCrossSection(V', EmptyDrawing) = EmptyDrawing ]_vars

C14_Witness ==
    /\ currentView = "cross"
    /\ (V.W <= 0 \/ V.T <= 0)
    /\ Len(dims.polys) > 0
    /\ lShape = EmptyPath

\* C15: an auto-fit click while Lw <= 0 or T <= 0 changes nothing: the edge
\* depth field, the volumes, the validation messages and the drawing stay
\* as they are.
C15_AutoFitGuard ==
    [][ (AutoFitClick /\ (V.Lw <= 0 \/ V.T <= 0)) =>
          /\ fields'["chamfer"] = fields["chamfer"]
          /\ display' = display
          /\ Shown' = Shown
          /\ UNCHANGED vars ]_vars

C15_Witness ==
    /\ autoFitShown
    /\ (V.Lw <= 0 \/ V.T <= 0)
    /\ (V.Lw > 0 \/ V.T > 0)
    /\ V.Tr # V.Lw + V.T
    /\ validationMsg # << >>
    /\ volumeOne = Dash

ToneTop == [fill |-> "cTop", opacity |-> "1"]
ToneSide == [fill |-> "cSide", opacity |-> "1"]
ToneInnerLip == [fill |-> "cFront", opacity |-> "0.5"]
ToneBottom == [fill |-> "cTop", opacity |-> "0.4"]
ToneAccent == [fill |-> "accent", opacity |-> "1"]
ToneFallback == [fill |-> "cFront", opacity |-> "0.6"]

\* C16 as stated: in the 3D drawing of a valid Parameter Set with Tr > 0,
\* each lateral face has the tone of its edge (dx, dy): top for dy = 0 and
\* dx > 0, outer side for dx = 0 and dy < 0, inner lip for dx = 0 and
\* dy > 0, bottom for dy = 0 and dx < 0, accent for dx > 0 and dy < 0 (the
\* chamfer diagonal and every arc segment), and none has the fallback tone.
C16_FaceTones ==
    (validate(V).ok /\ V.Tr > 0 /\ IsoShown) =>
        LET cs == csTop(V)
        IN  \A i \in 1..(Len(dims.polys) - 1) :
                LET dx == cs[i + 1].x - cs[i].x
                    dy == cs[i + 1].y - cs[i].y
                    tone == dims.polys[i].tone
                IN  /\ (dy = 0 /\ dx > 0) => tone = ToneTop
                    /\ (dx = 0 /\ dy < 0) => tone = ToneSide
                    /\ (dx = 0 /\ dy > 0) => tone = ToneInnerLip
                    /\ (dy = 0 /\ dx < 0) => tone = ToneBottom
                    /\ (dx > 0 /\ dy < 0) => tone = ToneAccent
                    /\ tone # ToneFallback

FrontPt(p) == iso(p.x, p.y, 0)
BackPt(p) == iso(p.x, p.y, V.L * Milli)

\* C17 as stated: the 3D drawing of the n-vertex closed polygon is, for each
\* pair of consecutive boundary vertices in index order, the closing pair
\* (last, first) included, the quadrilateral (front_i, front_i+1, back_i+1,
\* back_i), and then the front cap as the last polygon; no back cap.
C17_FaceOrderAsStated ==
    IsoShown =>
        LET cs == csTop(V)
            n == Len(cs)
            next(i) == (i % n) + 1
        IN  /\ Len(dims.polys) = n + 1
            /\ \A i \in 1..n :
                  dims.polys[i].pts = << FrontPt(cs[i]), FrontPt(cs[next(i)]),
                                         BackPt(cs[next(i)]), BackPt(cs[i]) >>
            /\ FrontShown.pts = [i \in 1..n |-> FrontPt(cs[i])]
            /\ \A k \in 1..Len(dims.polys) :
                  dims.polys[k].pts # [i \in 1..n |-> BackPt(cs[i])]

\* C17 as amended: the 3D drawing of the n-vertex polygon is, for
\* i = 1 .. n-1 in index order, the quadrilateral (front_i, front_i+1,
\* back_i+1, back_i), and then the front cap as the n-th and last polygon;
\* the closing edge from the last vertex to the first gets no face, and no
\* back cap is drawn.
C17_FaceOrder ==
    IsoShown =>
        LET cs == csTop(V)
            n == Len(cs)
        IN  /\ Len(dims.polys) = n
            /\ \A i \in 1..(n - 1) :
                  dims.polys[i].pts = << FrontPt(cs[i]), FrontPt(cs[i + 1]),
                                         BackPt(cs[i + 1]), BackPt(cs[i]) >>
            /\ FrontShown.pts = [i \in 1..n |-> FrontPt(cs[i])]
            /\ \A k \in 1..Len(dims.polys) :
                  /\ dims.polys[k].pts # [i \in 1..n |-> BackPt(cs[i])]
                  /\ dims.polys[k].pts # << FrontPt(cs[n]), FrontPt(cs[1]),
                                             BackPt(cs[1]), BackPt(cs[n]) >>

C17_Witness ==
    /\ IsoShown
    /\ edgeBullnose /\ V.Tr > 0
    /\ Len(dims.polys) = 6 + segments
    /\ Len(FrontShown.pts) = 6 + segments
    /\ Len(dims.polys[1].pts) = 4

\* C18: for every Parameter Set the Validator accepts, with a chamfer, the
\* older implementation computes the same single-unit and total volume,
\* shows the same read-outs and builds the same 3D cross-section vertex
\* list, in the same order, as the newer one.
C18_OldAndNewAgree ==
    (validate(V).ok /\ V.edge = "chamfer") =>
        LET a == app_getValues(fields)
        IN  /\ app_volOne(a) = volOneOf(V)
            /\ app_volTotal(a) = volTotalOf(V)
            /\ app_calculate(a).volumeOne = volumeOne
            /\ app_calculate(a).volumeTotal = volumeTotal
            /\ app_csTop(a) = csTop(V)
            /\ IsoShown =>
                  FrontShown.pts = [i \in 1..Len(app_csTop(a)) |->
                                       FrontPt(app_csTop(a)[i])]

C18_Witness ==
    /\ validate(V).ok /\ V.edge = "chamfer" /\ V.Tr > 0 /\ V.qty >= 2
    /\ IsoShown
    /\ Len(app_csTop(app_getValues(fields))) = 7
    /\ volumeOne = app_calculate(app_getValues(fields)).volumeOne
    /\ volumeOne # Dash

\* C19 as stated: for every Parameter Set the Validator accepts, base minus
\* edge removal is strictly positive, the floor at zero changes nothing and
\* the single-unit read-out is a number; the dash is shown only for an
\* invalid Parameter Set.
C19_DashOnlyWhenInvalid ==
    /\ validate(V).ok =>
          LET d == DblSub(baseVol(V), edgeVol(V))
          IN  /\ d.s > 0
              /\ volOneOf(V) = d
              /\ volumeOne # Dash
    /\ volumeOne = Dash => ~validate(V).ok

\* v satisfies the invariant set once its edge depth is put aside
ValidApartFromEdgeDepth(v) == InvariantSetHolds([v EXCEPT !.Tr = 0])

\* C20 as stated: an auto-fit click on a Parameter Set that is valid apart
\* from its edge depth writes an edge depth with 0 <= Tr and
\* (Tr > 0 => Tr < T), the validation that follows succeeds and a volume is
\* displayed.
C20_AutoFitKeepsValid ==
    [][ (AutoFitClick /\ ValidApartFromEdgeDepth(V)) =>
          /\ V'.Tr >= 0
          /\ (V'.Tr > 0 => V'.Tr < V'.T)
          /\ validate(V').ok
          /\ validationMsg' = << >>
          /\ volumeOne' # Dash ]_vars

\* C21 as stated: for every Parameter Set the Validator accepts, every
\* vertex (x, y) of the 3D cross-section polygon has 0 <= x <= W and
\* -Lh <= y <= T, and the first tangent point (W - Tr, T) of the edge
\* treatment is not left of the slab's left edge.
C21_VerticesInBoundingBox ==
    validate(V).ok =>
        LET cs == csTop(V)
        IN  /\ \A i \in 1..Len(cs) :
                  /\ 0 <= cs[i].x /\ cs[i].x <= V.W * Milli
                  /\ (0 - V.Lh) * Milli <= cs[i].y /\ cs[i].y <= V.T * Milli
            /\ V.Tr > 0 => (cs[2] = PtMm(V.W - V.Tr, V.T) /\ V.W - V.Tr >= 0)
            /\ IsoShown =>
                  \A i \in 1..Len(cs) : FrontShown.pts[i] = FrontPt(cs[i])

\* twice the signed shoelace area, in mm2, of a polygon whose vertices are
\* whole millimetres (negative for a clockwise polygon, y pointing up)
RECURSIVE ShoelaceFrom(_, _)
ShoelaceFrom(cs, i) ==
    IF i > Len(cs) THEN 0
    ELSE LET j == (i % Len(cs)) + 1
             xi == cs[i].x \div Milli
             yi == cs[i].y \div Milli
             xj == cs[j].x \div Milli
             yj == cs[j].y \div Milli
         IN  (xi * yj - xj * yi) + ShoelaceFrom(cs, i + 1)

Shoelace2(cs) == ShoelaceFrom(cs, 1)

\* C22 as stated: for a valid Parameter Set with a chamfer (Tr = 0
\* included) whose unclamped volume is not negative, L times the absolute
\* shoelace area of the 3D cross-section polygon is the single-unit volume
\* of calculate(), which is what the read-out shows, and the signed area
\* is negative (clockwise, y pointing up) in the six-vertex and in the
\* chamfer variant.
C22_PolygonAreaIsVolume ==
    (/\ validate(V).ok /\ V.edge = "chamfer"
     /\ DblSub(baseVol(V), edgeVol(V)).s >= 0) =>
        LET a2 == Shoelace2(csTop(V))
        IN  /\ a2 < 0
            /\ HalfOf(V.L * Abs(a2)) = volOneOf(V)
            /\ volumeOne = formatVolume(HalfOf(V.L * Abs(a2)))

\* the edge treatment is on the 2D drawing: the path has the diagonal or
\* the arc, and the Tr annotation is there
EdgeDrawn2D(shown) ==
    /\ Len(shown.lShape.cmds) = 8
    /\ shown.lShape.cmds[3].op \in {"L", "A"}
    /\ \E k \in 1..Len(shown.dims.labels) :
          shown.dims.labels[k].tag \in {"TrChamfer", "TrBullnose"}

\* C23 as stated: for every valid Parameter Set, drawCrossSection draws the
\* edge treatment (diagonal or arc, and the Tr annotation) exactly when
\* drawIsometric builds the chamfer / bullnose vertex list and not the
\* six-vertex one.
C23_SameTopologyInBothViews ==
    validate(V).ok =>
        LET cross == drawCrossSection(V, EmptyDrawing)
            isoN == Len(frontFace(csTop(V)).pts)
        IN  /\ EdgeDrawn2D(cross) = (isoN > 6)
            /\ (currentView = "cross") => Shown = cross
            /\ IsoShown => Len(FrontShown.pts) = isoN

=============================================================================
